---- MODULE Spec2Model ----
(***************************************************************************)
(* Model of merlion/models/anomaly/spectral_residual.py: the               *)
(* SpectralResidual detector, its configuration object, _train (fit) and   *)
(* _get_anomaly_score (score) with the padding, saliency-map and           *)
(* trailing-average stages.                                                *)
(*                                                                         *)
(* Arrays are sequences; Python's 0-based and negative indices and slices  *)
(* are modelled by PyAt and PySlice.  Real numbers are exact rationals     *)
(* <<num, den>> with den > 0; <<0, 0>> stands for a non-finite value       *)
(* (numpy's nan).  The magnitudes of the saliency map (line 105) and the    *)
(* scores computed from them (lines 133-137) are kept as terms: a magnitude *)
(* names the transform input it is taken from, a score names the magnitude  *)
(* and the window of magnitudes it is computed from.                        *)
(***************************************************************************)
EXTENDS Integers, Sequences, FiniteSets, TLC

\* ---------------------------------------------------------------- bounds
\* longest working array (history rows plus series rows)
MaxLen == 3
\* most channels of a series
MaxDim == 2
\* largest sample value of a channel is MaxVal * row^2 + channel
MaxVal == 2
\* largest estimated_points, q, predicting_points and local_wind_sz configured
MaxEst == 1
MaxQ == 3
MaxPred == 2
MaxWind == 3

\* defaults of SpectralResidualConfig.__init__ (line 29)
DefaultLocalWindSz == 21
DefaultPredictingPoints == 5

\* target_seq_index is None, the default of line 29, or an int: None is the
\* empty tuple and the int i is <<i>>, so that no int stands for None
None == <<>>
Index(i) == <<i>>
AsInt(t) == t[1]

\* ------------------------------------------------------- exact arithmetic
Abs(x) == IF x < 0 THEN -x ELSE x
Min(a, b) == IF a < b THEN a ELSE b
Max(a, b) == IF a > b THEN a ELSE b

RECURSIVE Gcd(_, _)
Gcd(a, b) == IF b = 0 THEN a ELSE Gcd(b, a % b)

\* a rational in lowest terms with a positive denominator; x/0 is non-finite
Norm(n, d) ==
    IF d = 0 THEN <<0, 0>>
    ELSE LET g == Gcd(Abs(n), Abs(d))
             s == IF d < 0 THEN -1 ELSE 1
         IN <<s * (n \div g), s * (d \div g)>>

NaN == <<0, 0>>
IsFinite(x) == x[2] # 0
R(n) == <<n, 1>>
RAdd(x, y) == IF IsFinite(x) /\ IsFinite(y) THEN Norm(x[1] * y[2] + y[1] * x[2], x[2] * y[2]) ELSE NaN
RMul(x, y) == IF IsFinite(x) /\ IsFinite(y) THEN Norm(x[1] * y[1], x[2] * y[2]) ELSE NaN
RDiv(x, y) == IF IsFinite(x) /\ IsFinite(y) THEN Norm(x[1] * y[2], x[2] * y[1]) ELSE NaN

\* ------------------------------------------------------ Python sequences
\* s[i] for a 0-based index i that may be negative (the caller checks the range)
PyAt(s, i) == s[(IF i < 0 THEN i + Len(s) ELSE i) + 1]
PyInRange(s, i) == -Len(s) <= i /\ i < Len(s)

\* where a slice bound lands in a sequence of length n
Clamp(n, i) == IF i < 0 THEN Max(i + n, 0) ELSE Min(i, n)

\* s[lo:hi]; an omitted bound is 0 or Len(s)
PySlice(s, lo, hi) ==
    LET a == Clamp(Len(s), lo)
        b == Clamp(Len(s), hi)
    IN IF a >= b THEN <<>> ELSE SubSeq(s, a + 1, b)

Ones(n) == [k \in 1..n |-> 1]
Repeat(x, n) == [k \in 1..n |-> x]

RECURSIVE SumSeq(_)
SumSeq(s) == IF s = <<>> THEN R(0) ELSE RAdd(Head(s), SumSeq(Tail(s)))

\* numpy's broadcast of two 1-D shapes; -1 when they cannot be broadcast together
BroadcastLen(a, b) ==
    IF a = b THEN a ELSE IF a = 1 THEN b ELSE IF b = 1 THEN a ELSE -1

\* element k (1-based) of a 1-D array broadcast to a longer shape
BAt(s, k) == IF Len(s) = 1 THEN s[1] ELSE s[k]

\* np.convolve(a, v, mode="full") for non-empty a and v: entry k (1-based) is
\* the sum of the products v[k - j + 1] * a[j] over the j where both exist,
\* kept as the sequence of its terms [c |-> v[k - j + 1], x |-> a[j]]
ConvolveFull(a, v) ==
    [k \in 1..(Len(a) + Len(v) - 1) |->
        LET lo == Max(1, k - Len(v) + 1)
            hi == Min(Len(a), k)
        IN [j \in 1..(hi - lo + 1) |-> [c |-> v[k - (lo + j - 1) + 1], x |-> a[lo + j - 1]]]]

\* the length of np.convolve(a, v, mode="same"): max(Len(a), Len(v))
ConvolveSameLen(n, k) == Max(n, k)

\* ------------------------------------------------------------ data frames
\* A frame has an index (timestamps) and rows of dim channel values.  The
\* sample frames hold base[r] + c in row r, channel c (0-based), so that
\* channels differ; the history's timestamps precede the series'.
Frame(index, base, dim) ==
    [given |-> TRUE, index |-> index, dim |-> dim,
     rows |-> [r \in 1..Len(base) |-> [c \in 1..dim |-> base[r] + (c - 1)]]]

\* time_series_prev = None, the default of line 121
NoFrame == [given |-> FALSE, index |-> <<>>, dim |-> 0, rows |-> <<>>]

\* frame.values[:, i] for an integer i in range
Column(frame, i) == [r \in 1..Len(frame.rows) |-> PyAt(frame.rows[r], i)]

\* frame.values[:, None]: the index None adds an axis instead of selecting a
\* channel, giving an array of shape (rows, 1, channels) that holds every channel
AllChannels(frame) == [r \in 1..Len(frame.rows) |-> <<frame.rows[r]>>]

\* len(time_series)
FrameLen(frame) == Len(frame.rows)

\* --------------------------------------------------------------- padding
\* _compute_grad without the clamp of line 108: m = predicting_points
compute_grad_unclamped(values, predicting_points) ==
    LET m == predicting_points
        x_n == PyAt(values, -1)
        prev == PySlice(values, -m - 1, -1)
        a == [k \in 1..Len(prev) |-> x_n - prev[k]]
        b == [k \in 1..m |-> m + 1 - k]
        n == BroadcastLen(Len(a), Len(b))
        averages == [k \in 1..n |-> Norm(BAt(a, k), BAt(b, k))]
    IN IF n < 0 THEN [err |-> "ValueError", m |-> m, grad |-> NaN]
       ELSE [err |-> "ok", m |-> m,
             grad |-> IF n = 0 THEN NaN ELSE RDiv(SumSeq(averages), R(n))]

\* _compute_grad (lines 107-113), values non-empty
compute_grad(values, predicting_points) ==
    LET m == Min(predicting_points, Len(values) - 1)
        x_n == PyAt(values, -1)
        prev == PySlice(values, -m - 1, -1)
        a == [k \in 1..Len(prev) |-> x_n - prev[k]]
        b == [k \in 1..m |-> m + 1 - k]
        n == BroadcastLen(Len(a), Len(b))
        averages == [k \in 1..n |-> Norm(BAt(a, k), BAt(b, k))]
    IN IF n < 0 THEN [err |-> "ValueError", m |-> m, grad |-> NaN]
       ELSE [err |-> "ok", m |-> m,
             grad |-> IF n = 0 THEN NaN ELSE RDiv(SumSeq(averages), R(n))]

\* _pad (lines 115-119): the values followed by estimated_points copies of item
pad(values, predicting_points, estimated_points) ==
    IF Len(values) = 0
    THEN [err |-> "IndexError", m |-> 0, grad |-> NaN, item |-> NaN, padded |-> <<>>]
    ELSE LET g == compute_grad(values, predicting_points)
             m == Min(predicting_points, Len(values) - 1)
             item == RAdd(R(PyAt(values, -m)), RMul(g.grad, R(m)))
         IN IF g.err # "ok"
            THEN [err |-> g.err, m |-> m, grad |-> NaN, item |-> NaN, padded |-> <<>>]
            ELSE [err |-> "ok", m |-> m, grad |-> g.grad, item |-> item,
                  padded |-> [k \in 1..Len(values) |-> R(values[k])]
                             \o Repeat(item, estimated_points)]

\* _compute_grad (lines 107-113) on a non-empty array of shape (rows, 1, channels):
\* a has shape (m, 1, channels) and b shape (m,), so a / b pairs the last axis of
\* a with b and fails unless channels = m or one of them is 1; np.average is
\* taken over every entry
compute_grad_nd(values, predicting_points) ==
    LET channels == Len(values[1][1])
        m == Min(predicting_points, Len(values) - 1)
        x_n == PyAt(values, -1)
        prev == PySlice(values, -m - 1, -1)
        a == [j \in 1..Len(prev) |-> <<[c \in 1..channels |-> x_n[1][c] - prev[j][1][c]]>>]
        last == BroadcastLen(channels, m)
        count == Len(prev) * last
        averages == [e \in 1..count |->
                        LET j == ((e - 1) \div last) + 1
                            k == ((e - 1) % last) + 1
                        IN Norm(a[j][1][IF channels = 1 THEN 1 ELSE k],
                                m + 1 - (IF m = 1 THEN 1 ELSE k))]
    IN IF last < 0 THEN [err |-> "ValueError", m |-> m, grad |-> NaN]
       ELSE [err |-> "ok", m |-> m,
             grad |-> IF count = 0 THEN NaN ELSE RDiv(SumSeq(averages), R(count))]

\* _pad (lines 115-119) on an array of shape (rows, 1, channels): values[-1]
\* fails on no rows; item has shape (1, channels), which np.pad takes as
\* constant_values only for 1 or 2 channels (the last entry is the value
\* appended); every axis is padded by estimated_points
pad_nd(values, predicting_points, estimated_points) ==
    IF Len(values) = 0
    THEN [err |-> "IndexError", padded |-> <<>>]
    ELSE LET channels == Len(values[1][1])
             g == compute_grad_nd(values, predicting_points)
             m == Min(predicting_points, Len(values) - 1)
             item == [c \in 1..channels |->
                         RAdd(R(PyAt(values, -m)[1][c]), RMul(g.grad, R(m)))]
             fill == item[channels]
         IN IF g.err # "ok" THEN [err |-> g.err, padded |-> <<>>]
            ELSE IF channels > 2 THEN [err |-> "ValueError", padded |-> <<>>]
            ELSE [err |-> "ok",
                  padded |-> [r \in 1..(Len(values) + estimated_points) |->
                                [t \in 1..(1 + estimated_points) |->
                                   [c \in 1..(channels + estimated_points) |->
                                      IF r <= Len(values) /\ t = 1 /\ c <= channels
                                      THEN R(values[r][1][c]) ELSE fill]]]]

\* ---------------------------------------------------------- saliency map
\* Entry at (0-based) of np.abs(np.fft.ifft(np.exp(residuals + 1j * phases)))
\* for the transform input values and the kernel q_conv_map (line 105).  The
\* float is not computed: the term stands for whatever the transform gives on
\* that input, nan included, and is the same term for the same input.
Magnitude(values, kernel, at) == [of |-> values, kernel |-> kernel, at |-> at]

\* _get_saliency_map (lines 98-105): fft rejects an empty array,
\* convolve(mode="same") has length max(n, q), and the two elementwise
\* operations broadcast.
get_saliency_map(values, kernel) ==
    LET log_amps == Len(values)
        phases == Len(values)
        avg_log_amps == ConvolveSameLen(log_amps, Len(kernel))
        residuals == BroadcastLen(log_amps, avg_log_amps)
        spectrum == IF residuals < 0 THEN -1 ELSE BroadcastLen(residuals, phases)
    IN IF Len(values) = 0 \/ spectrum < 0
       THEN [err |-> "ValueError", map |-> <<>>]
       ELSE [err |-> "ok", map |-> [k \in 1..spectrum |-> Magnitude(values, kernel, k - 1)]]

\* _get_saliency_map (lines 98-105) on an array of shape (rows, 1, channels):
\* the transform is taken along the last axis and np.convolve (line 102)
\* rejects its result, which is not 1-D
get_saliency_map_nd(values, kernel) == [err |-> "ValueError", map |-> <<>>]

\* ------------------------------------------------------------- scoring
\* the literal 0.0 of line 137
Zero == [literal |-> TRUE, s |-> <<>>, avg |-> <<>>]

\* one entry of (saliency_map[1:] - average_values) / (average_values + 1e-8),
\* for the magnitude s and the average avg
Deviation(s, avg) == [literal |-> FALSE, s |-> <<s>>, avg |-> <<avg>>]

\* the locals of a call of _get_anomaly_score: err is "ok" until a line raises
Locals(err, i, values) ==
    [err |-> err, i |-> i, values |-> values, padded_values |-> <<>>,
     raw_map |-> <<>>, saliency_map |-> <<>>, average_values |-> <<>>,
     output_values |-> <<>>, scores |-> <<>>, index |-> <<>>]

\* lines 122-126: the target channel of the series, after that of the history.
\* With i = None no line raises here: values is the array of shape
\* (rows, 1, channels) of every channel.
extract(self, time_series, time_series_prev) ==
    LET i == self.config.target_seq_index
    IN IF i = None
       THEN Locals("ok", i, IF time_series_prev.given
                            THEN AllChannels(time_series_prev) \o AllChannels(time_series)
                            ELSE AllChannels(time_series))
       ELSE IF ~(-time_series.dim <= AsInt(i) /\ AsInt(i) < time_series.dim)
       THEN Locals("IndexError", i, <<>>)
       ELSE Locals("ok", i, IF time_series_prev.given
                            THEN Column(time_series_prev, AsInt(i)) \o Column(time_series, AsInt(i))
                            ELSE Column(time_series, AsInt(i)))

\* line 128: padded_values
pad_values(self, st) ==
    LET ep == self.config.estimated_points
        p == IF st.i = None
             THEN pad_nd(st.values, self.config.predicting_points, ep)
             ELSE pad(st.values, self.config.predicting_points, ep)
    IN IF st.err # "ok" THEN st
       ELSE IF ep > 0
       THEN IF p.err # "ok" THEN [st EXCEPT !.err = p.err]
            ELSE [st EXCEPT !.padded_values = p.padded]
       ELSE IF st.i = None
       THEN [st EXCEPT !.padded_values =
                [r \in 1..Len(st.values) |->
                    <<[c \in 1..Len(st.values[r][1]) |-> R(st.values[r][1][c])]>>]]
       ELSE [st EXCEPT !.padded_values = [k \in 1..Len(st.values) |-> R(st.values[k])]]

\* lines 129-131 without the test of line 130: the trim [: -estimated_points]
\* is taken even when estimated_points = 0
saliency_trim_always(self, st) ==
    LET ep == self.config.estimated_points
        sm == IF st.i = None
              THEN get_saliency_map_nd(st.padded_values, self.q_conv_map)
              ELSE get_saliency_map(st.padded_values, self.q_conv_map)
    IN IF st.err # "ok" THEN st
       ELSE IF sm.err # "ok" THEN [st EXCEPT !.err = sm.err]
       ELSE [st EXCEPT !.raw_map = sm.map, !.saliency_map = PySlice(sm.map, 0, -ep)]

\* lines 129-131: the saliency map of the padded values, without its last
\* estimated_points entries
saliency(self, st) ==
    LET ep == self.config.estimated_points
        sm == IF st.i = None
              THEN get_saliency_map_nd(st.padded_values, self.q_conv_map)
              ELSE get_saliency_map(st.padded_values, self.q_conv_map)
    IN IF st.err # "ok" THEN st
       ELSE IF sm.err # "ok" THEN [st EXCEPT !.err = sm.err]
       ELSE [st EXCEPT !.raw_map = sm.map,
                       !.saliency_map = IF ep > 0 THEN PySlice(sm.map, 0, -ep) ELSE sm.map]

\* lines 133-136 without the ramp of lines 134-135: every sum is divided by
\* local_wind_sz
trailing_average_noramp(saliency_map, local_conv_map, wind_sz, n) ==
    LET full == ConvolveFull(saliency_map, local_conv_map)
        head == PySlice(full, 0, n)
    IN PySlice([k \in 1..Len(head) |-> [sum |-> head[k], div |-> wind_sz]], 0, -1)

\* lines 133-136: average_values, each the sum of a window of magnitudes
\* divided by min(position, local_wind_sz)
trailing_average(saliency_map, local_conv_map, wind_sz, n) ==
    LET full == ConvolveFull(saliency_map, local_conv_map)
        head == PySlice(full, 0, n)
        a == [k \in 1..Len(head) |-> IF k > wind_sz THEN wind_sz ELSE k]
    IN PySlice([k \in 1..Len(head) |-> [sum |-> head[k], div |-> a[k]]], 0, -1)

\* line 139 taking the first len(time_series) scores instead of the last
first_rows(output_values, time_series) ==
    PySlice(output_values, 0, FrameLen(time_series))

\* line 139: output_values[-len(time_series):]
last_rows(output_values, time_series) ==
    PySlice(output_values, -FrameLen(time_series), Len(output_values))

\* lines 133-139: the trailing average, the scores and the frame returned
assemble(self, st, time_series) ==
    LET average_values == IF Len(st.saliency_map) = 0 \/ Len(self.local_conv_map) = 0
                          THEN <<>>
                          ELSE trailing_average(st.saliency_map, self.local_conv_map,
                                                self.local_wind_sz, Len(st.values))
        rest == PySlice(st.saliency_map, 1, Len(st.saliency_map))
        n == BroadcastLen(Len(rest), Len(average_values))
        output_values == <<Zero>> \o [k \in 1..n |-> Deviation(BAt(rest, k), BAt(average_values, k))]
        scores == last_rows(output_values, time_series)
    IN IF st.err # "ok" THEN st
       ELSE IF Len(st.saliency_map) = 0 \/ Len(self.local_conv_map) = 0
       THEN [st EXCEPT !.err = "ValueError"]
       ELSE IF n < 0
       THEN [st EXCEPT !.err = "ValueError", !.average_values = average_values]
       ELSE IF Len(scores) # Len(time_series.index)
       THEN [st EXCEPT !.err = "ValueError", !.average_values = average_values,
                       !.output_values = output_values]
       ELSE [st EXCEPT !.average_values = average_values,
                       !.output_values = output_values,
                       !.scores = scores, !.index = time_series.index]

\* _get_anomaly_score (lines 121-139)
get_anomaly_score(self, time_series, time_series_prev) ==
    assemble(self,
             saliency(self, pad_values(self, extract(self, time_series, time_series_prev))),
             time_series)

\* --------------------------------------------------------------- training
\* lines 142-144 without the assignment of line 144
train_target_kept(target_seq_index, dim) == target_seq_index

\* lines 142-144: a one-channel series sets target_seq_index to 0
train_target(target_seq_index, dim) == IF dim = 1 THEN Index(0) ELSE target_seq_index

\* lines 145-154: the two configuration checks, on the index after line 144
train_check(target_seq_index, dim) ==
    IF dim # 1 /\ target_seq_index = None THEN "RuntimeError"
    ELSE IF target_seq_index = None THEN "TypeError"
    ELSE IF ~(0 <= AsInt(target_seq_index) /\ AsInt(target_seq_index) < dim) THEN "AssertionError"
    ELSE "ok"

\* ------------------------------------------------------------------ state
VARIABLES
    config,          \* self.config: the SpectralResidualConfig
    q_conv_map,      \* self.q_conv_map = np.ones(q) / q
    local_wind_sz,   \* self.local_wind_sz
    local_conv_map,  \* self.local_conv_map = np.ones(local_wind_sz)
    pc,              \* "idle", or "returned" right after a call
    call,            \* the call that has just returned: arguments and result
    first_fit,       \* <<target_seq_index after the first fit that returned scores>>, <<>> before it
    threads          \* concurrent callers of _get_anomaly_score: line reached, arguments, locals

vars == <<config, q_conv_map, local_wind_sz, local_conv_map, pc, call, first_fit, threads>>

\* the detector as the methods see it
Self == [config |-> config, q_conv_map |-> q_conv_map,
         local_wind_sz |-> local_wind_sz, local_conv_map |-> local_conv_map]

NoCall == [op |-> "none"]

Threads == {"a", "b"}

\* a thread that is not inside a call
Outside ==
    [pc |-> "idle", time_series |-> NoFrame, time_series_prev |-> NoFrame,
     st |-> Locals("ok", None, <<>>)]

\* ----------------------------------------------------------------- inputs
EstimatedPoints == 0..MaxEst
QValues == 1..MaxQ
PredictingPoints == 1..MaxPred
LocalWindSz == 1..MaxWind
\* None, every channel number up to MaxDim and every negative index from -MaxDim
TargetSeqIndex == {None} \cup {Index(i) : i \in (-MaxDim)..MaxDim}

\* a channel-0 sample of n rows, v >= 1: no two rows are equal
ValSample(n, v) == [r \in 1..n |-> v * r * r]

\* time_series: rows h+1..n of an n-row sample, indexed by its own timestamps
SeriesOf(n, h, v, dim) ==
    Frame([k \in 1..(n - h) |-> h + k], SubSeq(ValSample(n, v), h + 1, n), dim)

\* time_series_prev: the h rows before it
HistoryOf(n, h, v, dim) ==
    Frame([k \in 1..h |-> k], SubSeq(ValSample(n, v), 1, h), dim)

\* ------------------------------------------------------------------- Init
\* SpectralResidual.__init__ (lines 80-84) on a configuration cfg
Construct(cfg) ==
    /\ config = cfg
    /\ q_conv_map = [k \in 1..cfg.q |-> Norm(1, cfg.q)]
    /\ local_wind_sz = cfg.local_wind_sz
    /\ local_conv_map = Ones(cfg.local_wind_sz)
    /\ pc = "idle"
    /\ call = NoCall
    /\ first_fit = <<>>
    /\ threads = [t \in Threads |-> Outside]

\* SpectralResidualConfig.__init__ (lines 58-62): every estimated_points, q and
\* target_seq_index, with the default predicting_points and local_wind_sz
Init ==
    \E cfg \in [estimated_points : EstimatedPoints, q : QValues,
                predicting_points : {DefaultPredictingPoints},
                local_wind_sz : {DefaultLocalWindSz},
                target_seq_index : TargetSeqIndex] : Construct(cfg)

\* ---------------------------------------------------------------- actions
\* the record of a returned call
Returned(op, before, time_series, time_series_prev, res) ==
    [op |-> op, target_before |-> before, time_series |-> time_series,
     time_series_prev |-> time_series_prev, res |-> res]

\* _train(train_data) (lines 141-156)
Fit ==
    \E n \in 0..MaxLen, v \in 1..MaxVal, dim \in 1..MaxDim :
        LET train_data == SeriesOf(n, 0, v, dim)
            target == train_target(config.target_seq_index, dim)
            check == train_check(target, dim)
            trained == [Self EXCEPT !.config.target_seq_index = target]
            res == IF check # "ok" THEN Locals(check, target, <<>>)
                   ELSE get_anomaly_score(trained, train_data, NoFrame)
        IN /\ pc = "idle"
           /\ config' = [config EXCEPT !.target_seq_index = target]
           /\ call' = Returned("fit", config.target_seq_index, train_data, NoFrame, res)
           /\ first_fit' = IF first_fit = <<>> /\ res.err = "ok"
                           THEN <<target>> ELSE first_fit
           /\ pc' = "returned"
           /\ UNCHANGED <<q_conv_map, local_wind_sz, local_conv_map, threads>>

\* a scoring call that resolved the channel as _train does (line 144)
score_target_resolved(target_seq_index, dim) == IF dim = 1 THEN Index(0) ELSE target_seq_index

\* the target_seq_index a scoring call leaves in the configuration: lines
\* 121-139 assign nothing to self or self.config
score_target(target_seq_index, dim) == target_seq_index

\* _get_anomaly_score(time_series, time_series_prev) (lines 121-139)
Score ==
    \E n \in 0..MaxLen, v \in 1..MaxVal, dim \in 1..MaxDim :
      \E h \in 0..n, with_prev \in BOOLEAN :
        LET time_series == SeriesOf(n, IF with_prev THEN h ELSE 0, v, dim)
            time_series_prev == IF with_prev THEN HistoryOf(n, h, v, dim) ELSE NoFrame
            target == score_target(config.target_seq_index, dim)
            res == get_anomaly_score([Self EXCEPT !.config.target_seq_index = target],
                                     time_series, time_series_prev)
        IN /\ pc = "idle"
           /\ with_prev \/ h = 0
           /\ config' = [config EXCEPT !.target_seq_index = target]
           /\ call' = Returned("score", config.target_seq_index, time_series,
                               time_series_prev, res)
           /\ pc' = "returned"
           /\ UNCHANGED <<q_conv_map, local_wind_sz, local_conv_map, first_fit, threads>>

\* the caller takes the result; the transient arrays are dropped
Return ==
    /\ pc = "returned"
    /\ pc' = "idle"
    /\ call' = NoCall
    /\ UNCHANGED <<config, q_conv_map, local_wind_sz, local_conv_map, first_fit, threads>>

Next == Fit \/ Score \/ Return

Spec == Init /\ [][Next]_vars

\* the stages alone: every estimated_points, predicting_points and
\* local_wind_sz, on a detector with q = 1 and target_seq_index = 0
InitStages ==
    \E cfg \in [estimated_points : EstimatedPoints, q : {1},
                predicting_points : PredictingPoints,
                local_wind_sz : LocalWindSz,
                target_seq_index : {Index(0)}] : Construct(cfg)

SpecStages == InitStages /\ [][Next]_vars

\* ------------------------------------------------- concurrent scoring
\* Callers of _get_anomaly_score on one detector whose first fit has
\* completed.  A thread may be pre-empted between any two lines; each step
\* below is one line group of the method and reads self as it is then.
ConcInputs ==
    [n : {MaxLen}, h : 0..1, dim : 1..MaxDim, v : {1}]

InitConc ==
    \E cfg \in [estimated_points : EstimatedPoints, q : {1},
                predicting_points : {DefaultPredictingPoints},
                local_wind_sz : {DefaultLocalWindSz},
                target_seq_index : {Index(i) : i \in 0..(MaxDim - 1)}] :
        /\ config = cfg
        /\ q_conv_map = [k \in 1..cfg.q |-> Norm(1, cfg.q)]
        /\ local_wind_sz = cfg.local_wind_sz
        /\ local_conv_map = Ones(cfg.local_wind_sz)
        /\ pc = "idle"
        /\ call = NoCall
        /\ first_fit = <<cfg.target_seq_index>>
        /\ threads = [t \in Threads |-> Outside]

Shared == <<q_conv_map, local_wind_sz, local_conv_map, pc, call, first_fit>>

\* get_anomaly_score(time_series, time_series_prev) is called
Enter(t) ==
    \E in \in ConcInputs :
        /\ threads[t].pc = "idle"
        /\ threads' = [threads EXCEPT ![t] =
              [pc |-> "l122",
               time_series |-> SeriesOf(in.n, in.h, in.v, in.dim),
               time_series_prev |-> IF in.h > 0 THEN HistoryOf(in.n, in.h, in.v, in.dim)
                                    ELSE NoFrame,
               st |-> Locals("ok", None, <<>>)]]
        /\ UNCHANGED <<config, Shared>>

\* line 122: i = self.target_seq_index
ReadTarget(t) ==
    LET target == score_target(config.target_seq_index, threads[t].time_series.dim)
    IN /\ threads[t].pc = "l122"
       /\ config' = [config EXCEPT !.target_seq_index = target]
       /\ threads' = [threads EXCEPT ![t].pc = "l123", ![t].st.i = target]
       /\ UNCHANGED Shared

\* lines 123-126: values
Extract(t) ==
    /\ threads[t].pc = "l123"
    /\ threads' = [threads EXCEPT ![t].pc = "l128",
          ![t].st = extract([Self EXCEPT !.config.target_seq_index = threads[t].st.i],
                            threads[t].time_series, threads[t].time_series_prev)]
    /\ UNCHANGED <<config, Shared>>

\* line 128: padded_values
Pad(t) ==
    /\ threads[t].pc = "l128"
    /\ threads' = [threads EXCEPT ![t].pc = "l129",
                                  ![t].st = pad_values(Self, threads[t].st)]
    /\ UNCHANGED <<config, Shared>>

\* lines 129-131: saliency_map
Saliency(t) ==
    /\ threads[t].pc = "l129"
    /\ threads' = [threads EXCEPT ![t].pc = "l133",
                                  ![t].st = saliency(Self, threads[t].st)]
    /\ UNCHANGED <<config, Shared>>

\* lines 133-139: the scores; the method returns
Assemble(t) ==
    /\ threads[t].pc = "l133"
    /\ threads' = [threads EXCEPT ![t].pc = "done",
                                  ![t].st = assemble(Self, threads[t].st, threads[t].time_series)]
    /\ UNCHANGED <<config, Shared>>

\* the caller takes the result
Leave(t) ==
    /\ threads[t].pc = "done"
    /\ threads' = [threads EXCEPT ![t] = Outside]
    /\ UNCHANGED <<config, Shared>>

NextConc ==
    \E t \in Threads :
        \/ Enter(t)
        \/ ReadTarget(t)
        \/ Extract(t)
        \/ Pad(t)
        \/ Saliency(t)
        \/ Assemble(t)
        \/ Leave(t)

SpecConc == InitConc /\ [][NextConc]_vars

\* ------------------------------------------------------------ properties
Returned_ == pc = "returned"

\* rows of the working array of the returned call: history, then series
HistRows == IF call.time_series_prev.given THEN FrameLen(call.time_series_prev) ELSE 0
WorkRows == HistRows + FrameLen(call.time_series)

\* the two configuration errors of _train
ConfigErrors == {"RuntimeError", "AssertionError"}

\* a channel number of a series of dim channels
ValidTarget(t, dim) == t # None /\ 0 <= AsInt(t) /\ AsInt(t) < dim

\* a score that is the literal 0.0
IsZero(x) == x.literal

\* the mean of the min(k, L) entries of s before position k (0-based): the sum
\* of s[max(0, k-L)] .. s[k-1] divided by min(k, L)
Baseline(s, k, L) ==
    [sum |-> [j \in 1..Min(k, L) |-> [c |-> 1, x |-> s[Max(0, k - L) + j]]],
     div |-> Min(k, L)]

\* (values[n-1] - values[n-1-m]) / m + ... + (values[n-1] - values[n-2]) / 1
RECURSIVE SlopeSum(_, _)
SlopeSum(values, j) ==
    IF j = 0 THEN R(0)
    ELSE RAdd(Norm(values[Len(values)] - values[Len(values) - j], j), SlopeSum(values, j - 1))

\* C1: a scoring call on a working array of at least 2 rows, with a target
\* channel the series has, returns exactly len(series) scores indexed by the
\* index of series, and no timestamp of the history.
C1_OutputAligned ==
    (/\ Returned_ /\ call.op = "score"
     /\ ValidTarget(call.target_before, call.time_series.dim)
     /\ WorkRows >= 2)
    => /\ call.res.err = "ok"
       /\ Len(call.res.scores) = FrameLen(call.time_series)
       /\ call.res.index = call.time_series.index
       /\ \A k \in 1..Len(call.res.index) : call.res.index[k] > HistRows

\* C2 as stated: the first score returned by any call is exactly 0.0, with or
\* without a history.
C2_FirstOutputZero ==
    (Returned_ /\ call.res.err = "ok" /\ Len(call.res.scores) >= 1)
    => IsZero(call.res.scores[1])

\* C2 amended: the first entry of the score array of the whole working array
\* is the literal 0.0; the scores returned are its entries from position
\* len(history) on, so the first score returned is 0.0 when no history row
\* precedes the series, and the deviation score of position len(history)
\* otherwise.
C2_FirstEntryZero ==
    (Returned_ /\ call.res.err = "ok")
    => /\ call.res.output_values[1] = Zero
       /\ call.res.scores = SubSeq(call.res.output_values, HistRows + 1, WorkRows)
       /\ (HistRows = 0 /\ call.res.scores # <<>>) => IsZero(call.res.scores[1])
       /\ (HistRows >= 1 /\ call.res.scores # <<>>) =>
             call.res.scores[1] =
                 Deviation(call.res.saliency_map[HistRows + 1],
                           Baseline(call.res.saliency_map, HistRows, local_wind_sz))

C2_Witness ==
    /\ Returned_ /\ call.op = "score" /\ call.res.err = "ok"
    /\ HistRows >= 1 /\ call.res.scores # <<>>
    /\ ~IsZero(call.res.scores[1])
    /\ IsZero(call.res.output_values[1])

\* C3: fit ends in a configuration error exactly when the series has more
\* than one channel and target_seq_index is unset or outside [0, channels);
\* then it returns no scores and leaves target_seq_index as it was.  Otherwise
\* it scores the resolved channel (0 for a one-channel series, whatever was
\* configured), and returns a score per row whenever the series has at least
\* 2 rows and, padded, is as long as the smoothing kernel.
C3_FitConfiguration ==
    (Returned_ /\ call.op = "fit")
    => LET t == call.target_before
           dim == call.time_series.dim
           rows == FrameLen(call.time_series)
           accepted == dim = 1 \/ ValidTarget(t, dim)
       IN /\ call.res.err = "ok" => accepted
          /\ accepted =>
                /\ call.res.err \notin ConfigErrors
                /\ call.res.i = IF dim = 1 THEN Index(0) ELSE t
                /\ config.target_seq_index = call.res.i
                /\ (rows >= 2 /\ rows + config.estimated_points >= config.q)
                       => /\ call.res.err = "ok"
                          /\ Len(call.res.scores) = rows
                          /\ call.res.values = Column(call.time_series, AsInt(call.res.i))
          /\ ~accepted =>
                /\ call.res.err \in ConfigErrors
                /\ t = None <=> call.res.err = "RuntimeError"
                /\ call.res.scores = <<>>
                /\ call.res.values = <<>>
                /\ config.target_seq_index = t

C3_Witness ==
    /\ Returned_ /\ call.op = "fit" /\ call.res.err = "ok"
    /\ call.time_series.dim = 1
    /\ call.target_before = Index(MaxDim)
    /\ config.target_seq_index = Index(0)

\* C4: once a fit has returned scores, target_seq_index keeps the value it
\* had after that fit.
C4_TargetNeverChanges ==
    first_fit # <<>> => config.target_seq_index = first_fit[1]

\* C5: a scoring call on a working array of at least 2 rows reads a channel
\* only with target_seq_index set and in range for the series scored, and ends
\* in a configuration error when the series has more than one channel and
\* target_seq_index is unset or out of range.
C5_ScoreResolvesTarget ==
    (Returned_ /\ call.op = "score" /\ WorkRows >= 2)
    => LET t == call.target_before
           dim == call.time_series.dim
       IN /\ call.res.values # <<>> => ValidTarget(t, dim)
          /\ (dim > 1 /\ ~ValidTarget(t, dim)) => call.res.err \in ConfigErrors

\* C6: a fit or score call whose working array has fewer than 2 rows is
\* rejected: it ends in an error (whichever error the code raises is taken for
\* the input-too-short error), no pad value is appended to the working array
\* and no score is returned.
C6_ShortInputRejected ==
    (/\ Returned_
     /\ ValidTarget(call.res.i, call.time_series.dim)
     /\ call.res.err \notin ConfigErrors
     /\ WorkRows < 2)
    => /\ call.res.err # "ok"
       /\ Len(call.res.padded_values) <= WorkRows
       /\ call.res.output_values = <<>>
       /\ call.res.scores = <<>>

\* C7: no step of a scoring call writes target_seq_index or a kernel, and
\* every call that returns, however its lines interleave with those of the
\* other caller, returns what the whole method returns on the detector as the
\* first fit left it.
C7_ScoringReadOnly ==
    /\ config.target_seq_index = first_fit[1]
    /\ q_conv_map = [k \in 1..config.q |-> Norm(1, config.q)]
    /\ local_wind_sz = config.local_wind_sz
    /\ local_conv_map = Ones(config.local_wind_sz)
    /\ \A t \in Threads :
          threads[t].pc = "done" =>
              threads[t].st = get_anomaly_score(
                  [Self EXCEPT !.config.target_seq_index = first_fit[1]],
                  threads[t].time_series, threads[t].time_series_prev)

C7_Witness ==
    /\ threads["a"].pc = "done" /\ threads["a"].st.err = "ok"
    /\ threads["b"].pc = "l129" /\ threads["b"].st.err = "ok"
    /\ threads["a"].time_series.dim # threads["b"].time_series.dim
    /\ threads["a"].st.i = threads["b"].st.i

\* C8: for a trimmed saliency map s of N >= 2 entries, one per row of the
\* working array, score[k] for 1 <= k <= N-1 is (s[k] - b) / (b + 1e-8) with
\* b the sum of s[max(0, k-L)] .. s[k-1] divided by min(k, L), L =
\* local_wind_sz.
C8_TrailingBaseline ==
    (/\ Returned_ /\ call.res.err = "ok"
     /\ Len(call.res.saliency_map) = Len(call.res.values)
     /\ Len(call.res.values) >= 2)
    => LET s == call.res.saliency_map
           N == Len(s)
           L == config.local_wind_sz
       IN /\ Len(call.res.output_values) = N
          /\ \A k \in 1..(N - 1) :
                call.res.output_values[k + 1] =
                    [literal |-> FALSE, s |-> <<s[k + 1]>>,
                     avg |-> <<Baseline(s, k, L)>>]

C8_Witness ==
    /\ Returned_ /\ call.res.err = "ok"
    /\ Len(call.res.saliency_map) = 3
    /\ config.local_wind_sz = 2
    /\ ~IsZero(call.res.output_values[3])

\* C9: on a working array of n >= 2 values the padder takes m =
\* min(predicting_points, n-1), 1 <= m <= n-1, does not fail, and returns the
\* n values followed by estimated_points copies of values[n-m] + gradient * m,
\* the gradient being the mean of the m slopes (values[n-1] - values[n-1-j]) / j.
C9_Padder ==
    (Returned_ /\ config.estimated_points > 0 /\ Len(call.res.values) >= 2)
    => LET values == call.res.values
           n == Len(values)
           m == Min(config.predicting_points, n - 1)
           gradient == RDiv(SlopeSum(values, m), R(m))
           item == RAdd(R(values[n - m + 1]), RMul(gradient, R(m)))
       IN /\ 1 <= m /\ m <= n - 1
          /\ call.res.padded_values =
                [k \in 1..(n + config.estimated_points) |->
                    IF k <= n THEN R(values[k]) ELSE item]

C9_Witness ==
    /\ Returned_ /\ call.res.err = "ok"
    /\ config.estimated_points > 0
    /\ Len(call.res.values) = 2
    /\ config.predicting_points = 2
    /\ call.res.values[1] # call.res.values[2]

\* C10: on a working array of n >= 2 rows the saliency map handed to the
\* trailing average has n entries: with estimated_points > 0 it is computed on
\* n + estimated_points values and loses exactly its last estimated_points
\* entries; with estimated_points = 0 it is computed on the n raw values and
\* nothing is dropped.
C10_SaliencyLength ==
    (Returned_ /\ Len(call.res.values) >= 2 /\ call.res.raw_map # <<>>)
    => LET n == Len(call.res.values)
           ep == config.estimated_points
       IN /\ Len(call.res.saliency_map) = n
          /\ Len(call.res.padded_values) = n + ep
          /\ Len(call.res.raw_map) = n + ep
          /\ call.res.saliency_map = SubSeq(call.res.raw_map, 1, n)
          /\ ep = 0 => /\ call.res.padded_values = [k \in 1..n |-> R(call.res.values[k])]
                       /\ call.res.saliency_map = call.res.raw_map

C10_Witness ==
    /\ Returned_ /\ call.res.err = "ok"
    /\ config.estimated_points = 0
    /\ HistRows >= 1
    /\ Len(call.res.saliency_map) = WorkRows
    /\ WorkRows >= 2
====
